---- MODULE Spec2Model ----
(***************************************************************************)
(* TaskFlow frontend (src/frontend/app.js): the in-memory store, the form  *)
(* controller, the delete gate, the toast queue and the asynchronous       *)
(* handlers that talk to the remote task service.                          *)
(*                                                                         *)
(* The browser runs one handler at a time; a handler runs up to its next   *)
(* `await` of a network call in one step, and resumes in one step when     *)
(* that call settles (everything between two network awaits is a chain of  *)
(* microtasks, which no other event can interleave).  Each suspended       *)
(* handler is one record of `inflight`.                                    *)
(*                                                                         *)
(* Left out: description and due date of a task (never read by any         *)
(* decision of the script), headings and button labels, the empty-state    *)
(* banner and the count badge.                                             *)
(***************************************************************************)
EXTENDS Integers, Sequences, FiniteSets, TLC

(***************************************************************************)
(* Bounds of the model                                                     *)
(***************************************************************************)
\* task ids are 0 .. MaxId
MaxId == 2
\* handlers suspended on a network call at the same time
MaxInflight == 2
\* toasts visible at the same time
MaxToasts == 2
\* toasts visible at the same time in the scenarios that are not about toasts
MaxQuietToasts == 1
\* the step of the clock where timing is observed, in ms
TickMs == 1550

(***************************************************************************)
(* Values                                                                  *)
(***************************************************************************)
\* JS null in an id field; task ids are integers >= 0
Null == -1
TaskIds == 0..MaxId

Statuses == {"todo", "in_progress", "done"}
Priorities == {"low", "medium", "high"}
StatusFilters == {"all"} \cup Statuses
PriorityFilters == {"all"} \cup Priorities

\* a string is a sequence of characters; these are the characters used
Space == " "
Letter == "a"

\* JS truthiness of a number-or-null id: null and 0 are falsy
Truthy(id) == id /= Null /\ id /= 0

\* JS truthiness of a string: "" is falsy
TruthyStr(s) == s /= ""

\* String.prototype.trim on a sequence of characters
RECURSIVE TrimLeft(_)
TrimLeft(s) == IF s /= <<>> /\ Head(s) = Space THEN TrimLeft(Tail(s)) ELSE s

RECURSIVE TrimRight(_)
TrimRight(s) ==
  IF s /= <<>> /\ s[Len(s)] = Space THEN TrimRight(SubSeq(s, 1, Len(s) - 1)) ELSE s

\* no trimming at all
TrimNothing(s) == s

Trim(s) == TrimRight(TrimLeft(s))

\* what the user can type into the title field
TitleInputs == { <<>>, <<Space>>, <<Letter>>, <<Space, Letter, Space>> }

\* a task as the service returns it (TaskOut)
Task(id, title, status, priority) ==
  [id |-> id, title |-> title, status |-> status, priority |-> priority,
   is_completed |-> (status = "done")]

\* the collections the service holds when the page is opened, per scenario
FormServers ==
  { << Task(0, <<Letter>>, "todo", "high"), Task(1, <<Letter>>, "in_progress", "high") >> }
ModalServers ==
  { << Task(0, <<Letter>>, "todo", "high"), Task(1, <<Letter>>, "in_progress", "low") >> }
ListServers ==
  { << Task(0, <<Letter>>, "todo", "high"), Task(1, <<Letter>>, "in_progress", "low") >> }
ViewServers ==
  { << Task(0, <<Letter>>, "todo", "high"), Task(1, <<Letter>>, "todo", "low"),
       Task(2, <<Letter>>, "in_progress", "high") >> }
InitialServers == FormServers \cup ModalServers \cup ListServers \cup ViewServers

VARIABLES
  \* the remote task service: its collection and the next id it assigns
  server, serverNextId,
  \* state (app.js 46-52)
  tasks, activeStatus, activePriority, editingId, pendingDeleteId,
  \* DOM: the rendered cards, spinner, submit button, modal, cancel-edit button
  taskList, loadingHidden, submitDisabled, modalShow, cancelEditHidden,
  \* DOM: the form fields and the title's validation mark
  formTaskId, formTitle, formPriority, titleInvalid,
  \* DOM: the toast container, each toast with the time left on its timer
  toasts,
  \* the handlers suspended on a network call, in the order the calls were issued
  inflight,
  \* history, not program state: the id of the last confirmation the user
  \* cancelled while the service held the task and no delete of it was under
  \* way; forgotten when a delete request for that id is sent
  cancelledId,
  \* history, not program state: the list on display when the change the user
  \* has under way was started
  listBefore,
  \* history, not program state: the reload sent after the mutation response
  \* that arrived last, and the load whose response is on display
  latestReload, shownLoad

vars == << server, serverNextId, tasks, activeStatus, activePriority, editingId,
           pendingDeleteId, taskList, loadingHidden, submitDisabled, modalShow,
           cancelEditHidden, formTaskId, formTitle, formPriority, titleInvalid,
           toasts, inflight, cancelledId, listBefore, latestReload, shownLoad >>

historyVars == << listBefore, latestReload, shownLoad >>

serverVars == << server, serverNextId >>
filterVars == << activeStatus, activePriority >>
formVars == << editingId, cancelEditHidden, formTaskId, formTitle, formPriority, titleInvalid >>
modalVars == << pendingDeleteId, modalShow, cancelledId >>

(***************************************************************************)
(* Sequences                                                               *)
(***************************************************************************)
RemoveAt(s, i) == SubSeq(s, 1, i - 1) \o SubSeq(s, i + 1, Len(s))

ReplaceAt(s, i, x) == [s EXCEPT ![i] = x]

(***************************************************************************)
(* Config                                                                  *)
(***************************************************************************)
\* CONFIG.TOAST_DURATION_MS
TOAST_DURATION_MS == 3000
\* the margin showToast adds to the duration before it removes the toast
TOAST_REMOVE_MARGIN_MS == 100

\* the delay of the removal timer showToast starts
ToastLifeMs == TOAST_DURATION_MS + TOAST_REMOVE_MARGIN_MS

\* the option the priority select of the form goes back to on form.reset()
DefaultPriority == "medium"

(***************************************************************************)
(* API helpers                                                             *)
(***************************************************************************)
NoPayload == [title |-> <<>>, priority |-> ""]
NoParams == [k \in {} |-> ""]

\* a JSON object is a function from its keys; {} has none
EmptyObject == [k \in {} |-> <<>>]
\* the body of a 2xx list response: {success, message, data: {tasks}}
ListBody(ts) == [k \in {"data"} |-> [j \in {"tasks"} |-> ts]]
\* the body of a 2xx response to a create, update, complete or delete
OkBody == [k \in {"data"} |-> EmptyObject]
\* the body of an error response: {detail}
DetailBody(detail) == [k \in {"detail"} |-> detail]

\* what fetch() resolves with: the status, and the body text, which may not be JSON
HttpResponse(status, decodable, body) ==
  [status |-> status, decodable |-> decodable, body |-> body]
\* no response yet
NoResponse == HttpResponse(0, FALSE, EmptyObject)
\* res.ok
ResOk(res) == res.status \in 200..299
\* res.json().catch(() => ({}))
Decoded(res) == IF res.decodable THEN res.body ELSE EmptyObject
\* data?.detail, "" standing for undefined
DetailOf(data) == IF "detail" \in DOMAIN data THEN data["detail"] ELSE ""

\* a handler suspended on the network call `op`, which has just been sent
Request(handler, op, id, params, payload) ==
  [handler |-> handler, op |-> op, id |-> id, params |-> params, payload |-> payload,
   stage |-> "sent", res |-> NoResponse, data |-> EmptyObject, msg |-> ""]

\* a query that sends every filter it is given, "all" included
ApiGetTasksParamsSendsAll(status, priority) ==
  [k \in { x \in {"status", "priority"} :
             \/ x = "status" /\ TruthyStr(status)
             \/ x = "priority" /\ TruthyStr(priority) } |->
     IF k = "status" THEN status ELSE priority]

\* the query of apiGetTasks: the URLSearchParams it builds
ApiGetTasksParams(status, priority) ==
  LET keys == { k \in {"status", "priority"} :
                  \/ k = "status" /\ TruthyStr(status) /\ status /= "all"
                  \/ k = "priority" /\ TruthyStr(priority) /\ priority /= "all" }
  IN  [k \in keys |-> IF k = "status" THEN status ELSE priority]

\* `HTTP ${res.status}: ${res.statusText}` for the statuses of the model
HttpStatusLine(status) ==
  CASE status = 200 -> "HTTP 200: OK"
    [] status = 404 -> "HTTP 404: Not Found"
    [] OTHER -> "HTTP 500: Internal Server Error"

\* an error message that never looks at the detail field
FetchJSONErrorGeneric(detail, status) == HttpStatusLine(status)

\* the message of the error fetchJSON throws on a non-2xx response
FetchJSONError(detail, status) ==
  IF TruthyStr(detail) THEN detail ELSE HttpStatusLine(status)

(***************************************************************************)
(* Render                                                                  *)
(***************************************************************************)
\* a filter that forgets the priority filter
FilterTestStatusOnly(t, status, priority) == status = "all" \/ t.status = status

\* the predicate of the filter in renderTaskList
FilterTest(t, status, priority) ==
  LET statusOk == status = "all" \/ t.status = status
      priorityOk == priority = "all" \/ t.priority = priority
  IN  statusOk /\ priorityOk

RECURSIVE Filtered(_, _, _)
\* state.tasks.filter(...) of renderTaskList: the cards it renders, in order
Filtered(ts, status, priority) ==
  IF ts = <<>> THEN <<>>
  ELSE IF FilterTest(Head(ts), status, priority)
       THEN <<Head(ts)>> \o Filtered(Tail(ts), status, priority)
       ELSE Filtered(Tail(ts), status, priority)

\* DOM.taskList after renderTaskList
\* a renderTaskList that shows the whole snapshot
RenderTaskListUnfiltered(ts, status, priority) == ts
RenderTaskList(ts, status, priority) == Filtered(ts, status, priority)

\* the ids of the cards on display, and of those that carry a Complete button
CardIds == { taskList[i].id : i \in 1..Len(taskList) }
CompletableIds == { taskList[i].id : i \in { j \in 1..Len(taskList) : ~taskList[j].is_completed } }

(***************************************************************************)
(* Toasts                                                                  *)
(***************************************************************************)
ToastIds == 1..MaxToasts
VisibleToastIds == { toasts[i].id : i \in 1..Len(toasts) }

\* room for one more toast (the bound of the model on the toast container)
CanToast == Len(toasts) < MaxToasts

\* showToast: append an entry and start its own removal timer
ShowToast(ts, type, text, err) ==
  LET used == { ts[i].id : i \in 1..Len(ts) }
      fresh == CHOOSE n \in ToastIds : n \notin used /\ \A m \in ToastIds \ used : n <= m
  IN  Append(ts, [id |-> fresh, type |-> type, text |-> text, err |-> err,
                  remaining |-> ToastLifeMs])

(***************************************************************************)
(* The remote task service                                                 *)
(***************************************************************************)
HasTask(coll, id) == \E i \in 1..Len(coll) : coll[i].id = id

\* the id the service gives the next task it creates (auto-increment)
NextIdAfter(coll) ==
  IF coll = <<>> THEN 0
  ELSE 1 + CHOOSE m \in { coll[i].id : i \in 1..Len(coll) } :
               \A i \in 1..Len(coll) : coll[i].id <= m

RECURSIVE ServerList(_, _)
\* GET /tasks/ with the optional status and priority filters
ServerList(coll, params) ==
  IF coll = <<>> THEN <<>>
  ELSE LET t == Head(coll)
           keep == /\ ("status" \in DOMAIN params => t.status = params["status"])
                   /\ ("priority" \in DOMAIN params => t.priority = params["priority"])
       IN  IF keep THEN <<t>> \o ServerList(Tail(coll), params)
           ELSE ServerList(Tail(coll), params)

\* PUT /tasks/{id}: only the supplied fields are written
ServerUpdate(coll, id, payload) ==
  [i \in 1..Len(coll) |->
     IF coll[i].id = id
     THEN [coll[i] EXCEPT !.title = payload.title, !.priority = payload.priority]
     ELSE coll[i]]

\* PATCH /tasks/{id}/complete
ServerComplete(coll, id) ==
  [i \in 1..Len(coll) |->
     IF coll[i].id = id
     THEN [coll[i] EXCEPT !.status = "done", !.is_completed = TRUE]
     ELSE coll[i]]

RECURSIVE ServerDelete(_, _)
\* DELETE /tasks/{id}
ServerDelete(coll, id) ==
  IF coll = <<>> THEN <<>>
  ELSE IF Head(coll).id = id THEN ServerDelete(Tail(coll), id)
       ELSE <<Head(coll)>> \o ServerDelete(Tail(coll), id)

\* the call returns data to the handler that awaits it
Resolved(r, data) == [r EXCEPT !.stage = "ok", !.data = data]
\* the call throws an error with this message
Rejected(r, msg) == [r EXCEPT !.stage = "err", !.msg = msg]

\* fetchJSON once fetch() has resolved with res: decode, then throw or return
FetchJSON(r, res) ==
  LET data == Decoded(res)
      got  == [r EXCEPT !.res = res]
  IN  IF ~ResOk(res)
      THEN Rejected(got, FetchJSONError(DetailOf(data), res.status))
      ELSE Resolved(got, data)

\* the service handles the request of inflight[i] and its response arrives
ServerRespond(i) ==
  /\ i \in 1..Len(inflight)
  /\ inflight[i].stage = "sent"
  /\ LET r == inflight[i] IN
       \/ /\ r.op = "list"
          /\ inflight' = ReplaceAt(inflight, i, FetchJSON(r, HttpResponse(200, TRUE, ListBody(ServerList(server, r.params)))))
          /\ UNCHANGED serverVars
       \/ /\ r.op = "create"
          /\ serverNextId <= MaxId
          /\ server' = Append(server, Task(serverNextId, r.payload.title, "todo", r.payload.priority))
          /\ serverNextId' = serverNextId + 1
          /\ inflight' = ReplaceAt(inflight, i, FetchJSON(r, HttpResponse(200, TRUE, OkBody)))
       \/ /\ r.op \in {"update", "complete", "delete"}
          /\ HasTask(server, r.id)
          /\ server' = CASE r.op = "update" -> ServerUpdate(server, r.id, r.payload)
                         [] r.op = "complete" -> ServerComplete(server, r.id)
                         [] r.op = "delete" -> ServerDelete(server, r.id)
          /\ inflight' = ReplaceAt(inflight, i, FetchJSON(r, HttpResponse(200, TRUE, OkBody)))
          /\ UNCHANGED serverNextId
       \/ /\ r.op \in {"update", "complete", "delete"}
          /\ ~HasTask(server, r.id)
          /\ inflight' = ReplaceAt(inflight, i, FetchJSON(r, HttpResponse(404, TRUE, DetailBody("Task not found."))))
          /\ UNCHANGED serverVars
  /\ UNCHANGED << tasks, filterVars, formVars, modalVars, taskList, loadingHidden,
                  submitDisabled, toasts >>

\* the request of inflight[i] fails: a 5xx response without a detail field
ServerFail(i) ==
  /\ i \in 1..Len(inflight)
  /\ inflight[i].stage = "sent"
  /\ inflight' = ReplaceAt(inflight, i, FetchJSON(inflight[i], HttpResponse(500, TRUE, EmptyObject)))
  /\ UNCHANGED << serverVars, tasks, filterVars, formVars, modalVars, taskList,
                  loadingHidden, submitDisabled, toasts >>

\* the response to the request of inflight[i] arrives with a body that is not
\* JSON (cut short, or a proxy's error page), under a 2xx or a 5xx status; with
\* a 2xx status the service has handled the request
ServerGarbled(i, status) ==
  /\ i \in 1..Len(inflight)
  /\ inflight[i].stage = "sent"
  /\ status \in {200, 500}
  /\ LET r == inflight[i] IN
       /\ inflight' = ReplaceAt(inflight, i, FetchJSON(r, HttpResponse(status, FALSE, EmptyObject)))
       /\ status = 200 => r.op = "list" \/ r.op = "create" \/ HasTask(server, r.id)
       /\ status = 200 /\ r.op = "create" => serverNextId <= MaxId
       /\ server' = IF status /= 200 THEN server
                    ELSE CASE r.op = "list" -> server
                           [] r.op = "create" ->
                                Append(server, Task(serverNextId, r.payload.title, "todo", r.payload.priority))
                           [] r.op = "update" -> ServerUpdate(server, r.id, r.payload)
                           [] r.op = "complete" -> ServerComplete(server, r.id)
                           [] r.op = "delete" -> ServerDelete(server, r.id)
       /\ serverNextId' = IF status = 200 /\ r.op = "create" THEN serverNextId + 1 ELSE serverNextId
  /\ UNCHANGED << tasks, filterVars, formVars, modalVars, taskList, loadingHidden,
                  submitDisabled, toasts >>

(***************************************************************************)
(* Data loading                                                            *)
(***************************************************************************)
\* a setLoading that never touches the list
SetLoadingKeepsList(visible, list) == list

\* DOM.taskList after setLoading(visible), which empties it when visible
SetLoading(visible, list) == IF visible THEN <<>> ELSE list

\* room for one more suspended handler (the bound of the model)
CanSend == Len(inflight) < MaxInflight

\* the list request loadTasks sends, awaited on behalf of `handler`
ListRequest(handler, id) ==
  Request(handler, "list", id, ApiGetTasksParams(activeStatus, activePriority), NoPayload)

\* res.data?.tasks ?? [] of a decoded body
TasksOf(body) ==
  IF "data" \notin DOMAIN body THEN <<>>
  ELSE IF "tasks" \notin DOMAIN body["data"] THEN <<>>
  ELSE body["data"]["tasks"]

\* a load that adds the response to the snapshot it has
InstallTasksMerged(old, data) == old \o TasksOf(data)

\* a load that keeps a snapshot it already has
InstallTasksOnce(old, data) == IF old = <<>> THEN TasksOf(data) ELSE old

\* state.tasks after a successful list response: res.data?.tasks ?? []
InstallTasks(old, data) == TasksOf(data)

\* loadTasks called from the Refresh button: setLoading(true), then the request
LoadTasks ==
  /\ CanSend
  /\ loadingHidden' = FALSE
  /\ taskList' = SetLoading(TRUE, taskList)
  /\ inflight' = Append(inflight, ListRequest("loadTasks", Null))
  /\ UNCHANGED << serverVars, tasks, filterVars, formVars, modalVars, submitDisabled, toasts >>

\* a loadTasks that drops the snapshot when its request has failed
LoadTasksResumeDropsSnapshot(i) ==
  /\ i \in 1..Len(inflight)
  /\ inflight[i].op = "list"
  /\ inflight[i].stage \in {"ok", "err"}
  /\ LET r == inflight[i] IN
       /\ IF r.stage = "ok"
          THEN /\ tasks' = InstallTasks(tasks, r.data)
               /\ taskList' = SetLoading(FALSE, RenderTaskList(tasks', activeStatus, activePriority))
               /\ UNCHANGED toasts
          ELSE /\ CanToast
               /\ toasts' = ShowToast(toasts, "error", "Failed to load tasks: ", r.msg)
               /\ taskList' = SetLoading(FALSE, taskList)
               /\ tasks' = <<>>
       /\ loadingHidden' = TRUE
       /\ submitDisabled' = IF r.handler = "handleFormSubmit" THEN FALSE ELSE submitDisabled
  /\ inflight' = RemoveAt(inflight, i)
  /\ UNCHANGED << serverVars, filterVars, formVars, modalVars >>

\* a loadTasks after which the submit button is always enabled
LoadTasksResumeEnablesSubmit(i) ==
  /\ i \in 1..Len(inflight)
  /\ inflight[i].op = "list"
  /\ inflight[i].stage \in {"ok", "err"}
  /\ LET r == inflight[i] IN
       /\ IF r.stage = "ok"
          THEN /\ tasks' = InstallTasks(tasks, r.data)
               /\ taskList' = SetLoading(FALSE, RenderTaskList(tasks', activeStatus, activePriority))
               /\ UNCHANGED toasts
          ELSE /\ CanToast
               /\ toasts' = ShowToast(toasts, "error", "Failed to load tasks: ", r.msg)
               /\ taskList' = SetLoading(FALSE, taskList)
               /\ UNCHANGED tasks
       /\ loadingHidden' = TRUE
       /\ submitDisabled' = FALSE
  /\ inflight' = RemoveAt(inflight, i)
  /\ UNCHANGED << serverVars, filterVars, formVars, modalVars >>

\* loadTasks resumes when its list request has settled; then the handler that
\* awaited loadTasks runs to its end (handleFormSubmit: setSubmitting(false))
LoadTasksResume(i) ==
  /\ i \in 1..Len(inflight)
  /\ inflight[i].op = "list"
  /\ inflight[i].stage \in {"ok", "err"}
  /\ LET r == inflight[i] IN
       /\ IF r.stage = "ok"
          THEN /\ tasks' = InstallTasks(tasks, r.data)
               /\ taskList' = SetLoading(FALSE, RenderTaskList(tasks', activeStatus, activePriority))
               /\ UNCHANGED toasts
          ELSE /\ CanToast
               /\ toasts' = ShowToast(toasts, "error", "Failed to load tasks: ", r.msg)
               /\ taskList' = SetLoading(FALSE, taskList)
               /\ UNCHANGED tasks
       /\ loadingHidden' = TRUE
       /\ submitDisabled' = IF r.handler = "handleFormSubmit" THEN FALSE ELSE submitDisabled
  /\ inflight' = RemoveAt(inflight, i)
  /\ UNCHANGED << serverVars, filterVars, formVars, modalVars >>

(***************************************************************************)
(* Form handlers                                                           *)
(***************************************************************************)
\* the user edits the title field; the input event clears the validation mark
TitleInput(v) ==
  /\ v \in TitleInputs
  /\ formTitle' = v
  /\ titleInvalid' = FALSE
  /\ UNCHANGED << serverVars, tasks, filterVars, modalVars, editingId, cancelEditHidden,
                  formTaskId, formPriority, taskList, loadingHidden, submitDisabled,
                  toasts, inflight >>

\* the user picks a priority in the form
PrioritySelect(p) ==
  /\ p \in Priorities
  /\ formPriority' = p
  /\ UNCHANGED << serverVars, tasks, filterVars, modalVars, editingId, cancelEditHidden,
                  formTaskId, formTitle, titleInvalid, taskList, loadingHidden,
                  submitDisabled, toasts, inflight >>

\* readForm: the payload, or null when the trimmed title is empty
ReadFormValid == Trim(formTitle) /= <<>>
ReadForm == [title |-> Trim(formTitle), priority |-> formPriority]

\* the request handleFormSubmit issues for a valid form
SubmitRequest(payload) ==
  IF Truthy(editingId)
  THEN Request("handleFormSubmit", "update", editingId, NoParams, payload)
  ELSE Request("handleFormSubmit", "create", Null, NoParams, payload)

\* handleFormSubmit up to its first await (a disabled submit button submits nothing)
HandleFormSubmit ==
  /\ ~submitDisabled
  /\ IF ~ReadFormValid
     THEN /\ titleInvalid' = TRUE
          /\ UNCHANGED << submitDisabled, inflight >>
     ELSE /\ CanSend
          /\ titleInvalid' = FALSE
          /\ submitDisabled' = TRUE
          /\ inflight' = Append(inflight, SubmitRequest(ReadForm))
  /\ UNCHANGED << serverVars, tasks, filterVars, modalVars, editingId, cancelEditHidden,
                  formTaskId, formTitle, formPriority, taskList, loadingHidden, toasts >>

\* a resetForm that forgets state.editingId
ResetFormStateKeepsId ==
  [editingId |-> editingId, formTaskId |-> Null, formTitle |-> <<>>,
   formPriority |-> DefaultPriority, cancelEditHidden |-> TRUE, titleInvalid |-> FALSE]

\* resetForm: the values the form controller and the fields take
ResetFormState ==
  [editingId |-> Null, formTaskId |-> Null, formTitle |-> <<>>,
   formPriority |-> DefaultPriority, cancelEditHidden |-> TRUE, titleInvalid |-> FALSE]

\* populateForm(task)
PopulateFormState(task) ==
  [editingId |-> task.id, formTaskId |-> task.id, formTitle |-> task.title,
   formPriority |-> task.priority, cancelEditHidden |-> FALSE, titleInvalid |-> titleInvalid]

SetForm(f) ==
  /\ editingId' = f.editingId
  /\ formTaskId' = f.formTaskId
  /\ formTitle' = f.formTitle
  /\ formPriority' = f.formPriority
  /\ cancelEditHidden' = f.cancelEditHidden
  /\ titleInvalid' = f.titleInvalid

\* the Cancel button of the form, shown in edit mode only: resetForm
ResetForm ==
  /\ ~cancelEditHidden
  /\ SetForm(ResetFormState)
  /\ UNCHANGED << serverVars, tasks, filterVars, modalVars, taskList, loadingHidden,
                  submitDisabled, toasts, inflight >>

\* a handleFormSubmit that resets the form whether or not its request succeeded
HandleFormSubmitResumeResets(i) ==
  /\ i \in 1..Len(inflight)
  /\ inflight[i].op \in {"create", "update"}
  /\ inflight[i].stage \in {"ok", "err"}
  /\ CanToast
  /\ LET r == inflight[i] IN
       IF r.stage = "ok"
       THEN /\ toasts' = ShowToast(toasts, "success",
                           IF r.op = "update" THEN "Task updated successfully!" ELSE "Task created!", "")
            /\ SetForm(ResetFormState)
            /\ loadingHidden' = FALSE
            /\ taskList' = SetLoading(TRUE, taskList)
            /\ inflight' = Append(RemoveAt(inflight, i), ListRequest("handleFormSubmit", Null))
            /\ UNCHANGED submitDisabled
       ELSE /\ toasts' = ShowToast(toasts, "error", "Error: ", r.msg)
            /\ SetForm(ResetFormState)
            /\ submitDisabled' = FALSE
            /\ inflight' = RemoveAt(inflight, i)
            /\ UNCHANGED << loadingHidden, taskList >>
  /\ UNCHANGED << serverVars, tasks, filterVars, modalVars >>

\* handleFormSubmit resumes when its create or update request has settled
HandleFormSubmitResume(i) ==
  /\ i \in 1..Len(inflight)
  /\ inflight[i].op \in {"create", "update"}
  /\ inflight[i].stage \in {"ok", "err"}
  /\ CanToast
  /\ LET r == inflight[i] IN
       IF r.stage = "ok"
       THEN /\ toasts' = ShowToast(toasts, "success",
                           IF r.op = "update" THEN "Task updated successfully!" ELSE "Task created!", "")
            /\ SetForm(ResetFormState)
            /\ loadingHidden' = FALSE
            /\ taskList' = SetLoading(TRUE, taskList)
            /\ inflight' = Append(RemoveAt(inflight, i), ListRequest("handleFormSubmit", Null))
            /\ UNCHANGED submitDisabled
       ELSE /\ toasts' = ShowToast(toasts, "error", "Error: ", r.msg)
            /\ submitDisabled' = FALSE
            /\ inflight' = RemoveAt(inflight, i)
            /\ UNCHANGED << formVars, loadingHidden, taskList >>
  /\ UNCHANGED << serverVars, tasks, filterVars, modalVars >>

(***************************************************************************)
(* Task list handlers                                                      *)
(***************************************************************************)
\* handleComplete(id) up to its await, from the Complete button of a card
HandleComplete(id) ==
  /\ id \in CompletableIds
  /\ CanSend
  /\ inflight' = Append(inflight, Request("handleComplete", "complete", id, NoParams, NoPayload))
  /\ UNCHANGED << serverVars, tasks, filterVars, formVars, modalVars, taskList,
                  loadingHidden, submitDisabled, toasts >>

\* a handleComplete that empties the list when its request has failed
HandleCompleteResumeClears(i) ==
  /\ i \in 1..Len(inflight)
  /\ inflight[i].op = "complete"
  /\ inflight[i].stage \in {"ok", "err"}
  /\ CanToast
  /\ LET r == inflight[i] IN
       IF r.stage = "ok"
       THEN /\ toasts' = ShowToast(toasts, "success", "Task marked as done!", "")
            /\ loadingHidden' = FALSE
            /\ taskList' = SetLoading(TRUE, taskList)
            /\ inflight' = Append(RemoveAt(inflight, i), ListRequest("handleComplete", r.id))
       ELSE /\ toasts' = ShowToast(toasts, "error", "Could not complete task: ", r.msg)
            /\ inflight' = RemoveAt(inflight, i)
            /\ taskList' = SetLoading(TRUE, taskList)
            /\ UNCHANGED loadingHidden
  /\ UNCHANGED << serverVars, tasks, filterVars, formVars, modalVars, submitDisabled >>

\* handleComplete resumes when its complete request has settled
\* a handleComplete that says nothing when the request has succeeded
HandleCompleteResumeSilent(i) ==
  /\ i \in 1..Len(inflight)
  /\ inflight[i].op = "complete"
  /\ inflight[i].stage \in {"ok", "err"}
  /\ CanToast
  /\ LET r == inflight[i] IN
       IF r.stage = "ok"
       THEN /\ toasts' = toasts
            /\ loadingHidden' = FALSE
            /\ taskList' = SetLoading(TRUE, taskList)
            /\ inflight' = Append(RemoveAt(inflight, i), ListRequest("handleComplete", r.id))
       ELSE /\ toasts' = ShowToast(toasts, "error", "Could not complete task: ", r.msg)
            /\ inflight' = RemoveAt(inflight, i)
            /\ UNCHANGED << loadingHidden, taskList >>
  /\ UNCHANGED << serverVars, tasks, filterVars, formVars, modalVars, submitDisabled >>

HandleCompleteResume(i) ==
  /\ i \in 1..Len(inflight)
  /\ inflight[i].op = "complete"
  /\ inflight[i].stage \in {"ok", "err"}
  /\ CanToast
  /\ LET r == inflight[i] IN
       IF r.stage = "ok"
       THEN /\ toasts' = ShowToast(toasts, "success", "Task marked as done!", "")
            /\ loadingHidden' = FALSE
            /\ taskList' = SetLoading(TRUE, taskList)
            /\ inflight' = Append(RemoveAt(inflight, i), ListRequest("handleComplete", r.id))
       ELSE /\ toasts' = ShowToast(toasts, "error", "Could not complete task: ", r.msg)
            /\ inflight' = RemoveAt(inflight, i)
            /\ UNCHANGED << loadingHidden, taskList >>
  /\ UNCHANGED << serverVars, tasks, filterVars, formVars, modalVars, submitDisabled >>

\* state.tasks.find((t) => t.id === id): the first match, or none
FindTask(ts, id) ==
  LET hits == { i \in 1..Len(ts) : ts[i].id = id }
  IN  IF hits = {} THEN << >>
      ELSE << ts[CHOOSE i \in hits : \A j \in hits : i <= j] >>

\* handleEdit(id)
\* a handleEdit that falls back to the create form when the task is missing
HandleEditResetsOnMiss(id) ==
  /\ LET found == FindTask(tasks, id) IN
       IF found = << >>
       THEN /\ CanToast
            /\ toasts' = ShowToast(toasts, "error", "Task not found in local state.", "")
            /\ SetForm(ResetFormState)
       ELSE /\ SetForm(PopulateFormState(found[1]))
            /\ UNCHANGED toasts
  /\ UNCHANGED << serverVars, tasks, filterVars, modalVars, taskList, loadingHidden,
                  submitDisabled, inflight >>

HandleEdit(id) ==
  /\ LET found == FindTask(tasks, id) IN
       IF found = << >>
       THEN /\ CanToast
            /\ toasts' = ShowToast(toasts, "error", "Task not found in local state.", "")
            /\ UNCHANGED formVars
       ELSE /\ SetForm(PopulateFormState(found[1]))
            /\ UNCHANGED toasts
  /\ UNCHANGED << serverVars, tasks, filterVars, modalVars, taskList, loadingHidden,
                  submitDisabled, inflight >>

\* handleTaskListClick on the Edit button of the card of task id
EditClick(id) == id \in CardIds /\ HandleEdit(id)

(***************************************************************************)
(* Delete modal                                                            *)
(***************************************************************************)
\* openDeleteModal(id), from the Delete button of a card
OpenDeleteModal(id) ==
  /\ id \in CardIds
  /\ pendingDeleteId' = id
  /\ modalShow' = TRUE
  /\ UNCHANGED << cancelledId, serverVars, tasks, filterVars, formVars, taskList, loadingHidden,
                  submitDisabled, toasts, inflight >>

\* the history of cancelled confirmations after closeDeleteModal
CancelledAfterClose ==
  IF /\ pendingDeleteId /= Null
     /\ \E k \in 1..Len(server) : server[k].id = pendingDeleteId
     /\ \A i \in 1..Len(inflight) : ~(inflight[i].op = "delete" /\ inflight[i].id = pendingDeleteId)
  THEN pendingDeleteId
  ELSE cancelledId

\* a closeDeleteModal that goes on to delete the task
CloseDeleteModalDeletes ==
  /\ pendingDeleteId' = Null
  /\ modalShow' = FALSE
  /\ cancelledId' = CancelledAfterClose
  /\ inflight' = IF pendingDeleteId /= Null /\ CanSend
                 THEN Append(inflight, Request("confirmDelete", "delete", pendingDeleteId, NoParams, NoPayload))
                 ELSE inflight
  /\ UNCHANGED << serverVars, tasks, filterVars, formVars, taskList, loadingHidden,
                  submitDisabled, toasts >>

\* closeDeleteModal
CloseDeleteModal ==
  /\ pendingDeleteId' = Null
  /\ modalShow' = FALSE
  /\ cancelledId' = CancelledAfterClose
  /\ UNCHANGED << serverVars, tasks, filterVars, formVars, taskList, loadingHidden,
                  submitDisabled, toasts, inflight >>

\* the Cancel button of the modal
ModalCancelClick == modalShow /\ CloseDeleteModal

\* a click on the overlay around the modal
ModalOverlayClick == modalShow /\ CloseDeleteModal

\* the hidden attribute of the modal, which the script never sets
ConfirmModalHidden == FALSE

\* the Escape key, anywhere in the document
EscapeKey == ~ConfirmModalHidden /\ CloseDeleteModal

\* a confirmDelete that reads the id from the first card on display
ConfirmDeleteReadsCard ==
  LET id == IF taskList = <<>> THEN Null ELSE taskList[1].id IN
    IF ~Truthy(pendingDeleteId)
    THEN UNCHANGED vars
    ELSE /\ CanSend
         /\ pendingDeleteId' = Null
         /\ modalShow' = FALSE
         /\ cancelledId' = IF cancelledId = id THEN Null ELSE cancelledId
         /\ inflight' = Append(inflight, Request("confirmDelete", "delete", id, NoParams, NoPayload))
         /\ UNCHANGED << serverVars, tasks, filterVars, formVars, taskList, loadingHidden,
                         submitDisabled, toasts >>

\* confirmDelete up to its await, from the Confirm button of the modal
\* a confirmDelete that leaves the dialog as it is while the request is sent
ConfirmDeleteKeepsPending ==
  LET id == pendingDeleteId IN
    IF ~Truthy(id)
    THEN UNCHANGED vars
    ELSE /\ CanSend
         /\ inflight' = Append(inflight, Request("confirmDelete", "delete", id, NoParams, NoPayload))
         /\ UNCHANGED << serverVars, tasks, filterVars, formVars, modalVars, taskList,
                         loadingHidden, submitDisabled, toasts >>

ConfirmDelete ==
  LET id == pendingDeleteId IN
    IF ~Truthy(id)
    THEN UNCHANGED vars
    ELSE /\ CanSend
         /\ pendingDeleteId' = Null
         /\ modalShow' = FALSE
         /\ cancelledId' = IF cancelledId = id THEN Null ELSE cancelledId
         /\ inflight' = Append(inflight, Request("confirmDelete", "delete", id, NoParams, NoPayload))
         /\ UNCHANGED << serverVars, tasks, filterVars, formVars, taskList, loadingHidden,
                         submitDisabled, toasts >>

\* confirmDelete resumes when its delete request has settled
\* a confirmDelete that leaves edit mode once the task is deleted
ConfirmDeleteResumeLeavesEdit(i) ==
  /\ i \in 1..Len(inflight)
  /\ inflight[i].op = "delete"
  /\ inflight[i].stage \in {"ok", "err"}
  /\ CanToast
  /\ LET r == inflight[i] IN
       IF r.stage = "ok"
       THEN /\ toasts' = ShowToast(toasts, "info", "Task deleted.", "")
            /\ loadingHidden' = FALSE
            /\ taskList' = SetLoading(TRUE, taskList)
            /\ inflight' = Append(RemoveAt(inflight, i), ListRequest("confirmDelete", r.id))
            /\ SetForm(ResetFormState)
       ELSE /\ toasts' = ShowToast(toasts, "error", "Could not delete task: ", r.msg)
            /\ inflight' = RemoveAt(inflight, i)
            /\ UNCHANGED << loadingHidden, taskList, formVars >>
  /\ UNCHANGED << serverVars, tasks, filterVars, modalVars, submitDisabled >>

ConfirmDeleteResume(i) ==
  /\ i \in 1..Len(inflight)
  /\ inflight[i].op = "delete"
  /\ inflight[i].stage \in {"ok", "err"}
  /\ CanToast
  /\ LET r == inflight[i] IN
       IF r.stage = "ok"
       THEN /\ toasts' = ShowToast(toasts, "info", "Task deleted.", "")
            /\ loadingHidden' = FALSE
            /\ taskList' = SetLoading(TRUE, taskList)
            /\ inflight' = Append(RemoveAt(inflight, i), ListRequest("confirmDelete", r.id))
       ELSE /\ toasts' = ShowToast(toasts, "error", "Could not delete task: ", r.msg)
            /\ inflight' = RemoveAt(inflight, i)
            /\ UNCHANGED << loadingHidden, taskList >>
  /\ UNCHANGED << serverVars, tasks, filterVars, formVars, modalVars, submitDisabled >>

(***************************************************************************)
(* Filter handlers                                                         *)
(***************************************************************************)
\* handleStatusPillClick on the pill of status filter v
\* a status pill that also forgets the priority filter
HandleStatusPillClickResetsPriority(v) ==
  /\ v \in StatusFilters
  /\ activeStatus' = v
  /\ activePriority' = "all"
  /\ taskList' = RenderTaskList(tasks, activeStatus', activePriority')
  /\ UNCHANGED << serverVars, tasks, formVars, modalVars, loadingHidden,
                  submitDisabled, toasts, inflight >>

HandleStatusPillClick(v) ==
  /\ v \in StatusFilters
  /\ activeStatus' = v
  /\ taskList' = RenderTaskList(tasks, activeStatus', activePriority)
  /\ UNCHANGED << serverVars, tasks, activePriority, formVars, modalVars, loadingHidden,
                  submitDisabled, toasts, inflight >>

\* handlePriorityFilterChange with the select on priority filter v
HandlePriorityFilterChange(v) ==
  /\ v \in PriorityFilters
  /\ activePriority' = v
  /\ taskList' = RenderTaskList(tasks, activeStatus, activePriority')
  /\ UNCHANGED << serverVars, tasks, activeStatus, formVars, modalVars, loadingHidden,
                  submitDisabled, toasts, inflight >>

(***************************************************************************)
(* Toast timers                                                            *)
(***************************************************************************)
\* time passes: by dt, or up to the first timer that is due if that is sooner
Tick(dt) ==
  /\ dt > 0
  /\ toasts /= <<>>
  /\ \A i \in 1..Len(toasts) : toasts[i].remaining > 0
  /\ LET least == CHOOSE m \in { toasts[i].remaining : i \in 1..Len(toasts) } :
                    \A i \in 1..Len(toasts) : m <= toasts[i].remaining
         step == IF least < dt THEN least ELSE dt
     IN  toasts' = [i \in 1..Len(toasts) |->
                      [toasts[i] EXCEPT !.remaining = toasts[i].remaining - step]]
  /\ UNCHANGED << serverVars, tasks, filterVars, formVars, modalVars, taskList,
                  loadingHidden, submitDisabled, inflight >>

\* a removal that clears the whole container
ToastRemoveAll(ts, n) == <<>>

\* the container after the timer callback of toast n: toast.remove()
ToastRemove(ts, n) ==
  LET keep == { i \in 1..Len(ts) : ts[i].id /= n }
      Nth(k) == CHOOSE i \in keep : Cardinality({ j \in keep : j <= i }) = k
  IN  [k \in 1..Cardinality(keep) |-> ts[Nth(k)]]

\* the timer of toast n fires
ToastTimeout(n) ==
  /\ \E i \in 1..Len(toasts) : toasts[i].id = n /\ toasts[i].remaining = 0
  /\ toasts' = ToastRemove(toasts, n)
  /\ UNCHANGED << serverVars, tasks, filterVars, formVars, modalVars, taskList,
                  loadingHidden, submitDisabled, inflight >>

(***************************************************************************)
(* The application                                                         *)
(***************************************************************************)
\* history values: no list noted, no load
NotNoted == [noted |-> FALSE, list |-> <<>>]
Noted(list) == [noted |-> TRUE, list |-> list]
NoLoad == << "none", Null >>

\* the page after init(): listeners wired, the initial loadTasks suspended,
\* with the service holding one of the collections of S
InitOn(S) ==
  /\ server \in S
  /\ serverNextId = NextIdAfter(server)
  /\ tasks = <<>>
  /\ activeStatus = "all"
  /\ activePriority = "all"
  /\ editingId = Null
  /\ pendingDeleteId = Null
  /\ taskList = <<>>
  /\ loadingHidden = FALSE
  /\ submitDisabled = FALSE
  /\ modalShow = FALSE
  /\ cancelEditHidden = TRUE
  /\ formTaskId = Null
  /\ formTitle = <<>>
  /\ formPriority = DefaultPriority
  /\ titleInvalid = FALSE
  /\ toasts = <<>>
  /\ cancelledId = Null
  /\ listBefore = NotNoted
  /\ latestReload = NoLoad
  /\ shownLoad = NoLoad
  /\ inflight = << Request("loadTasks", "list", Null, ApiGetTasksParams("all", "all"), NoPayload) >>

Init == InitOn(InitialServers)

\* an action that leaves the history alone
Plain(Act) == Act /\ UNCHANGED historyVars

Next ==
  \/ Plain(LoadTasks)
  \/ \E i \in 1..MaxInflight : Plain(ServerRespond(i))
  \/ \E i \in 1..MaxInflight : Plain(ServerFail(i))
  \/ \E i \in 1..MaxInflight : \E status \in {200, 500} : Plain(ServerGarbled(i, status))
  \/ \E i \in 1..MaxInflight : Plain(LoadTasksResume(i))
  \/ \E v \in TitleInputs : Plain(TitleInput(v))
  \/ \E p \in Priorities : Plain(PrioritySelect(p))
  \/ Plain(HandleFormSubmit)
  \/ Plain(ResetForm)
  \/ \E i \in 1..MaxInflight : Plain(HandleFormSubmitResume(i))
  \/ \E id \in TaskIds : Plain(HandleComplete(id))
  \/ \E i \in 1..MaxInflight : Plain(HandleCompleteResume(i))
  \/ \E id \in TaskIds : Plain(EditClick(id))
  \/ \E id \in TaskIds : Plain(OpenDeleteModal(id))
  \/ Plain(ModalCancelClick)
  \/ Plain(ModalOverlayClick)
  \/ Plain(EscapeKey)
  \/ Plain(ConfirmDelete)
  \/ \E i \in 1..MaxInflight : Plain(ConfirmDeleteResume(i))
  \/ \E v \in StatusFilters : Plain(HandleStatusPillClick(v))
  \/ \E v \in PriorityFilters : Plain(HandlePriorityFilterChange(v))
  \/ \E dt \in {TickMs, ToastLifeMs} : Plain(Tick(dt))
  \/ \E n \in ToastIds : Plain(ToastTimeout(n))

\* the whole application: every handler, every input
Spec == Init /\ [][Next]_vars

(***************************************************************************)
(* Scenarios: the application with the user confined to one part of the    *)
(* page, and at most MaxQuietToasts toasts on screen.  The network, the    *)
(* service, loadTasks and the toast timers are part of every scenario.     *)
(***************************************************************************)
\* an action taken only into states that satisfy Scope
Within(Act, Scope) == Act /\ Scope' /\ UNCHANGED historyVars

Quiet == Len(toasts) <= MaxQuietToasts

\* the user works with the form: types, submits, edits, cancels, refreshes
NextForm ==
  \/ Within(LoadTasks, Quiet)
  \/ \E i \in 1..MaxInflight : Within(ServerRespond(i), Quiet)
  \/ \E i \in 1..MaxInflight : Within(ServerFail(i), Quiet)
  \/ \E i \in 1..MaxInflight : Within(LoadTasksResume(i), Quiet)
  \/ \E v \in TitleInputs : Within(TitleInput(v), Quiet)
  \/ \E p \in {"high"} : Within(PrioritySelect(p), Quiet)
  \/ Within(HandleFormSubmit, Quiet)
  \/ Within(ResetForm, Quiet)
  \/ \E i \in 1..MaxInflight : Within(HandleFormSubmitResume(i), Quiet)
  \/ \E id \in TaskIds : Within(EditClick(id), Quiet)
  \/ Within(Tick(ToastLifeMs), Quiet)
  \/ \E n \in ToastIds : Within(ToastTimeout(n), Quiet)

SpecForm == InitOn(FormServers) /\ [][NextForm]_vars

\* the user works with the delete modal, the status pills and the Refresh button
NextModal ==
  \/ Within(LoadTasks, Quiet)
  \/ \E i \in 1..MaxInflight : Within(ServerRespond(i), Quiet)
  \/ \E i \in 1..MaxInflight : Within(ServerFail(i), Quiet)
  \/ \E i \in 1..MaxInflight : Within(LoadTasksResume(i), Quiet)
  \/ \E id \in TaskIds : Within(OpenDeleteModal(id), Quiet)
  \/ Within(ModalCancelClick, Quiet)
  \/ Within(ModalOverlayClick, Quiet)
  \/ Within(EscapeKey, Quiet)
  \/ Within(ConfirmDelete, Quiet)
  \/ \E i \in 1..MaxInflight : Within(ConfirmDeleteResume(i), Quiet)
  \/ \E v \in StatusFilters : Within(HandleStatusPillClick(v), Quiet)
  \/ Within(Tick(ToastLifeMs), Quiet)
  \/ \E n \in ToastIds : Within(ToastTimeout(n), Quiet)

SpecModal == InitOn(ModalServers) /\ [][NextModal]_vars

\* the user works with the list: completes tasks, clicks status pills, refreshes
NextList ==
  \/ Within(LoadTasks, Quiet)
  \/ \E i \in 1..MaxInflight : Within(ServerRespond(i), Quiet)
  \/ \E i \in 1..MaxInflight : Within(ServerFail(i), Quiet)
  \/ \E i \in 1..MaxInflight : Within(LoadTasksResume(i), Quiet)
  \/ \E id \in TaskIds : Within(HandleComplete(id), Quiet)
  \/ \E i \in 1..MaxInflight : Within(HandleCompleteResume(i), Quiet)
  \/ \E v \in StatusFilters : Within(HandleStatusPillClick(v), Quiet)
  \/ Within(Tick(ToastLifeMs), Quiet)
  \/ \E n \in ToastIds : Within(ToastTimeout(n), Quiet)

SpecList == InitOn(ListServers) /\ [][NextList]_vars

\* the user looks at the list: picks status and priority filters, refreshes
NextView ==
  \/ Within(LoadTasks, Quiet)
  \/ \E i \in 1..MaxInflight : Within(ServerRespond(i), Quiet)
  \/ \E i \in 1..MaxInflight : Within(ServerFail(i), Quiet)
  \/ \E i \in 1..MaxInflight : Within(LoadTasksResume(i), Quiet)
  \/ \E v \in StatusFilters : Within(HandleStatusPillClick(v), Quiet)
  \/ \E v \in PriorityFilters : Within(HandlePriorityFilterChange(v), Quiet)
  \/ Within(Tick(ToastLifeMs), Quiet)
  \/ \E n \in ToastIds : Within(ToastTimeout(n), Quiet)

SpecView == InitOn(ViewServers) /\ [][NextView]_vars

\* Scenario "steady": the collection of the service never changes and every
\* request is answered well; the user refreshes and changes the filters, also
\* while loads are in flight.  No load fails, so once nothing is in flight a
\* load has succeeded.
NextSteady ==
  \/ Within(LoadTasks, Quiet)
  \/ \E i \in 1..MaxInflight : Within(ServerRespond(i), Quiet)
  \/ \E i \in 1..MaxInflight : Within(LoadTasksResume(i), Quiet)
  \/ \E v \in StatusFilters : Within(HandleStatusPillClick(v), Quiet)
  \/ \E v \in PriorityFilters : Within(HandlePriorityFilterChange(v), Quiet)

SpecSteady == InitOn(ViewServers) /\ [][NextSteady]_vars

\* the user changes tasks: creates, edits, completes and deletes them and
\* refreshes, one request at a time
MutateServers == { << Task(1, <<Letter>>, "todo", "medium") >> }

\* at most one handler other than loadTasks is suspended on the network
OneAtATime ==
  Cardinality({ i \in 1..Len(inflight) : inflight[i].handler /= "loadTasks" }) <= 1
Calm == Quiet /\ OneAtATime

\* at most one handler is suspended on the network
Still == Quiet /\ Len(inflight) <= 1

\* a change by the user is under way: its handler is suspended on the network
Changing == \E i \in 1..Len(inflight) : inflight[i].handler /= "loadTasks"

\* an action taken only into states that satisfy Scope, with the history
\* noting the list on display when a change starts
Tracking(Act, Scope) ==
  /\ Act
  /\ Scope'
  /\ listBefore' = IF ~Changing' THEN NotNoted
                   ELSE IF ~Changing THEN Noted(taskList)
                   ELSE listBefore
  /\ UNCHANGED << latestReload, shownLoad >>

NextMutate ==
  \/ Tracking(LoadTasks, Still)
  \/ \E i \in 1..MaxInflight : Tracking(ServerRespond(i), Still)
  \/ \E i \in 1..MaxInflight : Tracking(ServerFail(i), Still)
  \/ \E i \in 1..MaxInflight : Tracking(LoadTasksResume(i), Still)
  \/ \E v \in {<<Letter>>} : Tracking(TitleInput(v), Still)
  \/ Tracking(HandleFormSubmit, Still)
  \/ \E i \in 1..MaxInflight : Tracking(HandleFormSubmitResume(i), Still)
  \/ \E id \in TaskIds : Tracking(EditClick(id), Still)
  \/ \E id \in TaskIds : Tracking(HandleComplete(id), Still)
  \/ \E i \in 1..MaxInflight : Tracking(HandleCompleteResume(i), Still)
  \/ \E id \in TaskIds : Tracking(OpenDeleteModal(id), Still)
  \/ Tracking(ConfirmDelete, Still)
  \/ \E i \in 1..MaxInflight : Tracking(ConfirmDeleteResume(i), Still)
  \/ Tracking(Tick(ToastLifeMs), Still)
  \/ \E n \in ToastIds : Tracking(ToastTimeout(n), Still)

SpecMutate == InitOn(MutateServers) /\ [][NextMutate]_vars

\* Scenario "race": two tasks, and changes (complete, delete) triggered while
\* the request or the reload of an earlier one is still in flight.  The
\* responses of the service arrive, and the suspended handlers resume, in any
\* order.  The scenario notes which reload is the one sent by the change whose
\* response came last (latestReload: its place in the queue while it is in
\* flight) and which load the display comes from (shownLoad).
RaceServers ==
  { << Task(1, <<Letter>>, "todo", "high"), Task(2, <<Letter>>, "todo", "low") >> }

Queued(k) == << "queued", k >>
Installed == << "installed", Null >>
Latest == << "latest", Null >>
Earlier == << "earlier", Null >>

\* the place of the noted reload after the entry at i has left the queue
Moved(at, i) == IF at[1] = "queued" /\ at[2] > i THEN Queued(at[2] - 1) ELSE at

\* a suspended handler resumes at inflight[i]
RaceResume(Act, i) ==
  /\ Act
  /\ Quiet'
  /\ LET r == inflight[i] IN
       IF r.op /= "list" /\ r.stage = "ok"
       THEN /\ latestReload' = Queued(Len(inflight'))
            /\ shownLoad' = IF shownLoad = NoLoad THEN NoLoad ELSE Earlier
       ELSE IF r.op = "list" /\ latestReload = Queued(i)
       THEN /\ latestReload' = Installed
            /\ shownLoad' = IF r.stage = "ok" THEN Latest ELSE shownLoad
       ELSE /\ latestReload' = Moved(latestReload, i)
            /\ shownLoad' = IF r.op = "list" /\ r.stage = "ok" THEN Earlier ELSE shownLoad
  /\ UNCHANGED listBefore

NextRace ==
  \/ \E i \in 1..MaxInflight : Within(ServerRespond(i), Quiet)
  \/ \E i \in 1..MaxInflight : RaceResume(LoadTasksResume(i), i)
  \/ \E id \in TaskIds : Within(HandleComplete(id), Quiet)
  \/ \E i \in 1..MaxInflight : RaceResume(HandleCompleteResume(i), i)
  \/ \E id \in TaskIds : Within(OpenDeleteModal(id), Quiet)
  \/ Within(ConfirmDelete, Quiet)
  \/ \E i \in 1..MaxInflight : RaceResume(ConfirmDeleteResume(i), i)
  \/ Within(Tick(ToastLifeMs), Quiet)
  \/ \E n \in ToastIds : Within(ToastTimeout(n), Quiet)

SpecRace == InitOn(RaceServers) /\ [][NextRace]_vars

\* Scenario "edit": handleEdit is called with any task id, on display or not
\* (the click on a card only passes ids of cards, see EditClick), while the
\* form, the filters, the delete dialog and loads are in use.
NextEdit ==
  \/ Within(LoadTasks, Quiet)
  \/ \E i \in 1..MaxInflight : Within(ServerRespond(i), Quiet)
  \/ \E i \in 1..MaxInflight : Within(LoadTasksResume(i), Quiet)
  \/ \E id \in TaskIds : Within(HandleEdit(id), Quiet)
  \/ \E v \in {<<Letter>>} : Within(TitleInput(v), Quiet)
  \/ Within(ResetForm, Quiet)
  \/ \E id \in TaskIds : Within(OpenDeleteModal(id), Quiet)
  \/ Within(ModalCancelClick, Quiet)
  \/ \E v \in {"all", "done"} : Within(HandleStatusPillClick(v), Quiet)
  \/ Within(Tick(ToastLifeMs), Quiet)
  \/ \E n \in ToastIds : Within(ToastTimeout(n), Quiet)

SpecEdit == InitOn(FormServers) /\ [][NextEdit]_vars

\* every call of the API client, over a network that also delivers bodies
\* that are not JSON
NextApi ==
  \/ \E i \in 1..MaxInflight : Within(ServerRespond(i), Calm)
  \/ \E i \in 1..MaxInflight : Within(ServerFail(i), Calm)
  \/ \E i \in 1..MaxInflight : \E status \in {200, 500} : Within(ServerGarbled(i, status), Calm)
  \/ \E i \in 1..MaxInflight : Within(LoadTasksResume(i), Calm)
  \/ \E v \in {<<Letter>>} : Within(TitleInput(v), Calm)
  \/ Within(HandleFormSubmit, Calm)
  \/ \E i \in 1..MaxInflight : Within(HandleFormSubmitResume(i), Calm)
  \/ \E id \in TaskIds : Within(EditClick(id), Calm)
  \/ \E id \in TaskIds : Within(HandleComplete(id), Calm)
  \/ \E i \in 1..MaxInflight : Within(HandleCompleteResume(i), Calm)
  \/ \E id \in TaskIds : Within(OpenDeleteModal(id), Calm)
  \/ Within(ConfirmDelete, Calm)
  \/ \E i \in 1..MaxInflight : Within(ConfirmDeleteResume(i), Calm)
  \/ Within(Tick(ToastLifeMs), Calm)
  \/ \E n \in ToastIds : Within(ToastTimeout(n), Calm)

SpecApi == InitOn(MutateServers) /\ [][NextApi]_vars

\* the user does anything the page offers, one request at a time, on a
\* service that holds one task
WholeServers == { << Task(2, <<Letter>>, "todo", "medium") >> }

NextWhole ==
  \/ Within(LoadTasks, Still)
  \/ \E i \in 1..MaxInflight : Within(ServerRespond(i), Still)
  \/ \E i \in 1..MaxInflight : Within(ServerFail(i), Still)
  \/ \E i \in 1..MaxInflight : Within(LoadTasksResume(i), Still)
  \/ \E v \in {<<Letter>>} : Within(TitleInput(v), Still)
  \/ \E p \in {"high"} : Within(PrioritySelect(p), Still)
  \/ Within(HandleFormSubmit, Still)
  \/ Within(ResetForm, Still)
  \/ \E i \in 1..MaxInflight : Within(HandleFormSubmitResume(i), Still)
  \/ \E id \in TaskIds : Within(EditClick(id), Still)
  \/ \E id \in TaskIds : Within(HandleComplete(id), Still)
  \/ \E i \in 1..MaxInflight : Within(HandleCompleteResume(i), Still)
  \/ \E id \in TaskIds : Within(OpenDeleteModal(id), Still)
  \/ Within(ModalCancelClick, Still)
  \/ Within(ModalOverlayClick, Still)
  \/ Within(EscapeKey, Still)
  \/ Within(ConfirmDelete, Still)
  \/ \E i \in 1..MaxInflight : Within(ConfirmDeleteResume(i), Still)
  \/ \E v \in {"all", "done"} : Within(HandleStatusPillClick(v), Still)
  \/ \E v \in {"all", "high"} : Within(HandlePriorityFilterChange(v), Still)
  \/ Within(Tick(ToastLifeMs), Still)
  \/ \E n \in ToastIds : Within(ToastTimeout(n), Still)

SpecWhole == InitOn(WholeServers) /\ [][NextWhole]_vars

\* the toast queue under failing and succeeding loads, with the clock running
NextToast ==
  \/ Plain(LoadTasks)
  \/ \E i \in 1..MaxInflight : Plain(ServerRespond(i))
  \/ \E i \in 1..MaxInflight : Plain(ServerFail(i))
  \/ \E i \in 1..MaxInflight : Plain(LoadTasksResume(i))
  \/ Plain(Tick(TickMs))
  \/ \E n \in ToastIds : Plain(ToastTimeout(n))

\* the event loop runs a timer callback that is due, and time does not stop
SpecToast ==
  /\ InitOn(ViewServers)
  /\ [][NextToast]_vars
  /\ WF_vars(Plain(Tick(TickMs)))
  /\ \A n \in ToastIds : WF_vars(Plain(ToastTimeout(n)))

(***************************************************************************)
(* Properties                                                              *)
(***************************************************************************)
Last(q) == q[Len(q)]
IdsOf(ts) == { ts[i].id : i \in 1..Len(ts) }

\* a step in which loadTasks installs a successful list response
LoadSucceeds(i) ==
  /\ i \in 1..Len(inflight)
  /\ inflight[i].stage = "ok"
  /\ LoadTasksResume(i)

\* a step that calls renderTaskList
RenderStep ==
  \/ \E v \in StatusFilters : HandleStatusPillClick(v)
  \/ \E v \in PriorityFilters : HandlePriorityFilterChange(v)
  \/ \E i \in 1..MaxInflight : LoadSucceeds(i)

\* the positions of ts whose task matches the status filter (or it is "all")
\* and the priority filter (or it is "all")
MatchingPositions(ts, status, priority) ==
  { i \in 1..Len(ts) : /\ status \in {"all", ts[i].status}
                       /\ priority \in {"all", ts[i].priority} }

\* view lists exactly the elements of ts at the positions P, in the order of ts
IsSelection(view, ts, P) ==
  /\ Len(view) = Cardinality(P)
  /\ \A i \in P : view[Cardinality({ j \in P : j <= i })] = ts[i]

\* C1: whenever renderTaskList runs, the list it renders is exactly the
\* subsequence of `tasks` whose status matches the status filter (or the filter
\* is all) and whose priority matches the priority filter (or the filter is
\* all), in the order of `tasks`.
C1_RenderIsFilteredSubsequence ==
  [][ \/ IsSelection(taskList', tasks', MatchingPositions(tasks', activeStatus', activePriority'))
      \/ ~RenderStep ]_vars

\* C1 witness: under the priority filter high the rendered list is the first
\* and the third task of a three-task snapshot, the second one left out.
C1_Witness ==
  /\ Len(tasks) = 3
  /\ activeStatus = "all" /\ activePriority = "high"
  /\ tasks[2].priority /= "high"
  /\ taskList = << tasks[1], tasks[3] >>

\* a step that sends a list request (loadTasks called by the Refresh button or
\* by a handler whose mutation succeeded); the request is the last of inflight'
SendsList ==
  \/ LoadTasks
  \/ \E i \in 1..MaxInflight :
       /\ i \in 1..Len(inflight)
       /\ inflight[i].stage = "ok"
       /\ HandleFormSubmitResume(i) \/ HandleCompleteResume(i) \/ ConfirmDeleteResume(i)

\* the query carries `key` exactly when the filter is not "all", with its value
CarriesExactly(params, key, filter) ==
  /\ key \in DOMAIN params <=> filter /= "all"
  /\ key \in DOMAIN params => params[key] = filter /\ params[key] /= "all"

\* C8: every list request carries a status parameter exactly when the status
\* filter is not all (with that value), a priority parameter exactly when the
\* priority filter is not all (with that value), and never the value all.
C8_ListQueryOmitsAll ==
  [][ SendsList =>
        LET q == Last(inflight').params IN
          /\ Last(inflight').op = "list"
          /\ DOMAIN q \subseteq {"status", "priority"}
          /\ CarriesExactly(q, "status", activeStatus)
          /\ CarriesExactly(q, "priority", activePriority) ]_vars

\* C8 witness: a list request sent under status filter all and priority filter
\* low, carrying the priority and no status.
C8_Witness ==
  /\ activeStatus = "all" /\ activePriority = "low"
  /\ inflight /= <<>>
  /\ Last(inflight).op = "list" /\ Last(inflight).stage = "sent"
  /\ DOMAIN Last(inflight).params = {"priority"}
  /\ Last(inflight).params["priority"] = "low"

\* the form controller is in Create (no editingId, Cancel hidden) or in
\* Edit(id) (editingId = id, shown in the hidden id field, Cancel visible)
InCreate == editingId = Null /\ formTaskId = Null /\ cancelEditHidden
InEdit(id) == editingId = id /\ formTaskId = id /\ ~cancelEditHidden
ExactlyOneFormMode ==
  Cardinality({ m \in {Null} \cup TaskIds : IF m = Null THEN InCreate ELSE InEdit(m) }) = 1

\* a step in which handleFormSubmit resumes after its create or update succeeded
SubmitSucceeds ==
  \E i \in 1..MaxInflight :
    /\ i \in 1..Len(inflight)
    /\ inflight[i].stage = "ok"
    /\ HandleFormSubmitResume(i)

\* C2: the form controller is always in exactly one of Create / Edit(id), and
\* when the create or update request of a submit succeeds, whatever the user
\* did while it was in flight, the controller is in Create and the form fields
\* are cleared.
C2_SubmitSuccessResetsForm ==
  /\ []ExactlyOneFormMode
  /\ [][ SubmitSucceeds =>
           /\ InCreate'
           /\ formTitle' = <<>>
           /\ formPriority' = DefaultPriority
           /\ ~titleInvalid' ]_vars

\* C2 witness: an update has just succeeded (its toast is on screen, its reload
\* is in flight) and the form is back in Create with its fields cleared.
C2_Witness ==
  /\ \E k \in 1..Len(toasts) : toasts[k].text = "Task updated successfully!"
  /\ \E i \in 1..Len(inflight) : inflight[i].handler = "handleFormSubmit" /\ inflight[i].op = "list"
  /\ InCreate /\ formTitle = <<>>

\* the title is empty or consists of white space only
BlankTitle(title) == \A i \in 1..Len(title) : title[i] = Space

\* C3: a submit with an empty or whitespace-only title sends no request (the
\* suspended handlers and the service are as before) and leaves the form
\* controller state unchanged.
C3_BlankTitleSendsNothing ==
  [][ (HandleFormSubmit /\ BlankTitle(formTitle)) =>
        /\ inflight' = inflight
        /\ server' = server /\ serverNextId' = serverNextId
        /\ editingId' = editingId /\ formTaskId' = formTaskId
        /\ cancelEditHidden' = cancelEditHidden ]_vars

\* C3 witness: in Edit(1) the title was replaced by a single space and
\* submitted: the field is marked invalid, the controller is still in Edit(1).
C3_Witness ==
  /\ formTitle = <<Space>>
  /\ titleInvalid
  /\ InEdit(1)
  /\ ~submitDisabled

\* C7 (as claimed): a valid submit issues exactly one request, chosen by the
\* controller state: a create request in Create, an update request for id in
\* Edit(id), for every task id.
C7_SubmitRequestFollowsMode ==
  [][ (HandleFormSubmit /\ ~BlankTitle(formTitle)) =>
        /\ Len(inflight') = Len(inflight) + 1
        /\ SubSeq(inflight', 1, Len(inflight)) = inflight
        /\ IF editingId = Null
           THEN Last(inflight').op = "create"
           ELSE Last(inflight').op = "update" /\ Last(inflight').id = editingId ]_vars

\* the delete gate: Idle, or Confirming(id) with the modal open for id
Idle == pendingDeleteId = Null /\ ~modalShow
Confirming(id) == pendingDeleteId = id /\ modalShow

\* a step that cancels the confirmation: Cancel button, overlay click or Escape
CancelStep == ModalCancelClick \/ ModalOverlayClick \/ EscapeKey

\* the delete requests among the suspended handlers
DeleteRequests(q) == { i \in 1..Len(q) : q[i].op = "delete" }

\* C4 (as claimed): the gate is always Idle or Confirming(id); it enters
\* Confirming(id) only by openDeleteModal(id); a cancel returns it to Idle; and
\* for every task id a confirm in Confirming(id) takes it out of Confirming (so
\* that it is Idle while the delete is in flight and after it has resolved).
C4_GateNeverStuck ==
  \A id \in TaskIds :
    Confirming(id) /\ CanSend => ENABLED (ConfirmDelete /\ Idle')

\* C4, the rest of the claim, which the code meets: entry into Confirming only
\* by openDeleteModal, Idle after a cancel, Idle after any confirm that sends a
\* delete, and no change of the gate when the delete resolves.
C4_GateTransitions ==
  /\ [](Idle \/ \E id \in TaskIds : Confirming(id))
  /\ [][ /\ (\E id \in TaskIds : Confirming(id)' /\ ~Confirming(id)) =>
              \E id \in TaskIds : OpenDeleteModal(id) /\ Confirming(id)'
         /\ CancelStep => Idle'
         /\ Cardinality(DeleteRequests(inflight')) > Cardinality(DeleteRequests(inflight)) => Idle'
         /\ (\E i \in 1..MaxInflight : ConfirmDeleteResume(i)) =>
              pendingDeleteId' = pendingDeleteId /\ modalShow' = modalShow ]_vars

\* the task with this id on the service is one the query of a list request admits
Admitted(params, id) ==
  \E k \in 1..Len(server) :
    /\ server[k].id = id
    /\ "status" \in DOMAIN params => server[k].status = params["status"]
    /\ "priority" \in DOMAIN params => server[k].priority = params["priority"]

\* a cancel sends nothing and touches neither the service nor the snapshot
CancelSendsNothing ==
  CancelStep => /\ inflight' = inflight
                /\ server' = server
                /\ tasks' = tasks
                /\ Idle'

\* C5 (as claimed): a cancel of the confirmation for a task sends no delete
\* request (nor any other), and that task is in the snapshot after any later
\* reload.
C5_CancelledTaskInEverySnapshot ==
  [][ /\ CancelSendsNothing
      /\ \A i \in 1..MaxInflight :
           (LoadSucceeds(i) /\ cancelledId /= Null) => cancelledId \in IdsOf(tasks') ]_vars

\* C5 (amended): a cancel of the confirmation for a task sends no request and
\* changes nothing on the service, which still holds the task; the task is in
\* the snapshot after every later reload whose query (the filters that were
\* active when the reload was sent) admits it.
C5_CancelledTaskInAdmittingSnapshots ==
  /\ [](cancelledId /= Null => HasTask(server, cancelledId))
  /\ [][ /\ CancelSendsNothing
         /\ \A i \in 1..MaxInflight :
              (LoadSucceeds(i) /\ cancelledId /= Null /\ Admitted(inflight[i].params, cancelledId))
                => cancelledId \in IdsOf(tasks') ]_vars

\* C5 witness: the confirmation for task 1 was cancelled, no delete is in
\* flight, and a reload under the status filter in_progress, sent afterwards,
\* has installed a snapshot that holds task 1.
C5_Witness ==
  /\ cancelledId = 1
  /\ Idle
  /\ inflight = <<>>
  /\ activeStatus = "in_progress"
  /\ IdsOf(tasks) = {1}

\* C6: a delete request is sent only by a confirm that takes the gate from
\* Confirming(id) to Idle, and it is a request for that id; the id changes only
\* by openDeleteModal (to its argument) or by being cleared, never by a reload
\* or a render.
C6_DeleteOnlyOnConfirmOfCapturedId ==
  [][ /\ Cardinality(DeleteRequests(inflight')) > Cardinality(DeleteRequests(inflight)) =>
           /\ ConfirmDelete
           /\ pendingDeleteId /= Null /\ Idle'
           /\ inflight' = Append(inflight, Last(inflight'))
           /\ Last(inflight').op = "delete" /\ Last(inflight').id = pendingDeleteId
      /\ pendingDeleteId' /= pendingDeleteId =>
           \/ pendingDeleteId' = Null
           \/ \E id \in TaskIds : OpenDeleteModal(id) /\ pendingDeleteId' = id ]_vars

\* C6 witness: the delete request for task 1 has been sent while a reload had
\* cleared the list, so that no card of task 1 was on display at confirm time.
C6_Witness ==
  /\ Idle
  /\ taskList = <<>> /\ ~loadingHidden
  /\ Len(inflight) = 2
  /\ inflight[1].op = "list"
  /\ inflight[2].op = "delete" /\ inflight[2].id = 1 /\ inflight[2].stage = "sent"

\* the load that follows a successful complete of task id installs its response
LoadAfterComplete(i, id) ==
  /\ LoadSucceeds(i)
  /\ inflight[i].handler = "handleComplete"
  /\ inflight[i].id = id

\* the snapshot holds the task, done and completed
HoldsDone(ts, id) ==
  \E k \in 1..Len(ts) : ts[k].id = id /\ ts[k].status = "done" /\ ts[k].is_completed

\* C9 (as claimed): the load that follows a successful complete of a task
\* installs a snapshot in which that task is shown with status done and
\* is_completed true.
C9_CompletedTaskShownDone ==
  [][ \A i \in 1..MaxInflight : \A id \in TaskIds :
        LoadAfterComplete(i, id) => HoldsDone(tasks', id) /\ HoldsDone(taskList', id) ]_vars

\* C9 (amended): in the snapshot installed by the load that follows a
\* successful complete of a task, that task has status done and is_completed
\* true whenever it is there; it is there when the service still holds it and
\* the query of that load (the filters active when it was sent) admits a done
\* task of its priority, and then it is on display iff the status filter at
\* render time is all or done and the priority filter admits it; under a query
\* with status todo or in_progress the snapshot is without the task.
C9_CompletedTaskDoneWhereAdmitted ==
  [][ \A i \in 1..MaxInflight : \A id \in TaskIds :
        LoadAfterComplete(i, id) =>
          LET q == inflight[i].params IN
            /\ \A k \in 1..Len(tasks') :
                 tasks'[k].id = id => tasks'[k].status = "done" /\ tasks'[k].is_completed
            /\ (HasTask(server, id) /\ Admitted(q, id)) => HoldsDone(tasks', id)
            /\ ("status" \in DOMAIN q /\ q["status"] /= "done") => id \notin IdsOf(tasks')
            /\ HoldsDone(tasks', id) =>
                 (HoldsDone(taskList', id) <=>
                    \E k \in 1..Len(tasks') :
                      /\ tasks'[k].id = id
                      /\ activeStatus \in {"all", "done"}
                      /\ activePriority \in {"all", tasks'[k].priority}) ]_vars

\* C9 witness: task 0 was completed (the toast is still up), the load that
\* followed has settled, and the card of task 0 shows it done.
C9_Witness ==
  /\ \E k \in 1..Len(toasts) : toasts[k].text = "Task marked as done!"
  /\ inflight = <<>>
  /\ loadingHidden
  /\ HoldsDone(tasks, 0)
  /\ HoldsDone(taskList, 0)

\* the position of toast n in the container
ToastAt(ts, n) == CHOOSE i \in 1..Len(ts) : ts[i].id = n
\* toast n is on screen and its removal timer is due
ToastDue(n) == n \in VisibleToastIds /\ toasts[ToastAt(toasts, n)].remaining = 0
\* the container without its i-th entry, the other entries as they were
WithoutEntry(ts, i) == SubSeq(ts, 1, i - 1) \o SubSeq(ts, i + 1, Len(ts))
\* toast n leaves the screen in this step
ToastLeaves(n) == n \in VisibleToastIds /\ n \notin VisibleToastIds'
\* toast n comes on screen in this step
ToastEnters(n) == n \notin VisibleToastIds /\ n \in VisibleToastIds'

\* C10: every toast showToast adds is eventually removed, a fixed duration
\* (TOAST_DURATION_MS + 100 ms) after its own insertion, and its removal
\* neither depends on nor removes another toast on screen: a toast enters at
\* the end of the container with its whole life ahead of it; the life of a
\* toast on screen never exceeds that duration and only the passing of time
\* shortens it, by the same amount for every toast; a toast leaves only when
\* its own life has run out, and then it alone leaves, the others staying as
\* they were and in their order; a toast whose life has run out can be removed
\* whatever else is on screen; and every toast on screen eventually leaves.
C10_ToastRemovedAfterItsOwnDuration ==
  /\ [](\A i \in 1..Len(toasts) : toasts[i].remaining \in 0..ToastLifeMs)
  /\ [](\A n \in ToastIds : ToastDue(n) => ENABLED ToastTimeout(n))
  /\ [][ \A n \in ToastIds :
           /\ ToastEnters(n) =>
                /\ Len(toasts') = Len(toasts) + 1
                /\ SubSeq(toasts', 1, Len(toasts)) = toasts
                /\ Last(toasts').id = n
                /\ Last(toasts').remaining = ToastLifeMs
           /\ ToastLeaves(n) =>
                /\ ToastDue(n)
                /\ toasts' = WithoutEntry(toasts, ToastAt(toasts, n))
           /\ (n \in VisibleToastIds /\ n \in VisibleToastIds') =>
                LET before == toasts[ToastAt(toasts, n)]
                    after  == toasts'[ToastAt(toasts', n)]
                    first  == toasts[1]
                    first2 == toasts'[ToastAt(toasts', first.id)]
                IN  /\ after = [before EXCEPT !.remaining = after.remaining]
                    /\ after.remaining <= before.remaining
                    /\ first.id \in VisibleToastIds' =>
                         before.remaining - after.remaining
                           = first.remaining - first2.remaining ]_vars
  /\ \A n \in ToastIds : (n \in VisibleToastIds) ~> (n \notin VisibleToastIds)

\* C10 witness: toast 1 was removed when its time was up while toast 2, shown
\* later, stays on screen with part of its life left.
C10_Witness ==
  /\ Len(toasts) = 1
  /\ toasts[1].id = 2
  /\ toasts[1].remaining \in 1..(ToastLifeMs - 1)

\* the request of inflight[i] settles in this step: fetchJSON returns or throws
Settles(i) ==
  /\ i \in 1..Len(inflight)
  /\ Len(inflight') = Len(inflight)
  /\ inflight[i].stage = "sent"
  /\ inflight'[i].stage /= "sent"

\* the error message the claim describes for a response
DescribedMessage(res) ==
  IF res.decodable /\ "detail" \in DOMAIN res.body /\ res.body["detail"] /= ""
  THEN res.body["detail"]
  ELSE HttpStatusLine(res.status)

C12_TasksReplacedOnlyByLoad ==
  [][ /\ tasks' /= tasks => \E i \in 1..MaxInflight : LoadSucceeds(i)
      /\ \A i \in 1..MaxInflight :
           LoadSucceeds(i) => tasks' = inflight[i].res.body["data"]["tasks"] ]_vars

\* C12 witness: the snapshot that held task 2 has been replaced by the empty
\* list of the reload that followed its deletion.
C12_Witness ==
  /\ server = <<>>
  /\ tasks = <<>>
  /\ inflight = <<>>
  /\ loadingHidden
  /\ \E k \in 1..Len(toasts) : toasts[k].text = "Task deleted."

\* the handler of a change the user has under way resumes at inflight[i]
ChangeResumes(i) ==
  /\ i \in 1..Len(inflight)
  /\ inflight[i].handler /= "loadTasks"
  /\ \/ HandleFormSubmitResume(i)
     \/ HandleCompleteResume(i)
     \/ ConfirmDeleteResume(i)
     \/ LoadTasksResume(i)

\* the request of the change fails, or the reload that follows it fails
MutationFails(i) == ChangeResumes(i) /\ inflight[i].op /= "list" /\ inflight[i].stage = "err"
ReloadFails(i) == ChangeResumes(i) /\ inflight[i].op = "list" /\ inflight[i].stage = "err"

\* this step raises one notification of this type
Raises(type) ==
  /\ Len(toasts') = Len(toasts) + 1
  /\ SubSeq(toasts', 1, Len(toasts)) = toasts
  /\ Last(toasts').type = type

SubmitFails(i) ==
  /\ i \in 1..Len(inflight)
  /\ inflight[i].stage = "err"
  /\ HandleFormSubmitResume(i)

\* the list requests among the suspended handlers
ListRequests(q) == { i \in 1..Len(q) : q[i].op = "list" }

\* C14: when a submitted create or update fails, the form controller stays as
\* it is (Create stays Create, Edit(id) stays Edit(id)), the form keeps its
\* values, no reload is started and the list is not touched, and an error
\* notification with the message of the error is raised.
C14_FailedSubmitKeepsForm ==
  [][ \A i \in 1..MaxInflight :
        SubmitFails(i) =>
          /\ editingId' = editingId
          /\ (InCreate <=> InCreate')
          /\ << formTaskId', formTitle', formPriority', cancelEditHidden' >>
               = << formTaskId, formTitle, formPriority, cancelEditHidden >>
          /\ Len(inflight') = Len(inflight) - 1
          /\ Cardinality(ListRequests(inflight')) = Cardinality(ListRequests(inflight))
          /\ taskList' = taskList /\ loadingHidden' = loadingHidden
          /\ Raises("error")
          /\ Last(toasts').text = "Error: "
          /\ Last(toasts').err = inflight[i].msg ]_vars

\* C14 witness: an update of task 1 has failed; the form is still in Edit(1)
\* with the title that was submitted, the error is on screen, nothing is in
\* flight.
C14_Witness ==
  /\ InEdit(1)
  /\ formTitle = <<Letter>>
  /\ ~cancelEditHidden
  /\ ~submitDisabled
  /\ inflight = <<>>
  /\ \E k \in 1..Len(toasts) :
       toasts[k].text = "Error: " /\ toasts[k].err = "HTTP 500: Internal Server Error"

\* the handler suspended at inflight[i] resumes
Resumes(i) ==
  \/ LoadTasksResume(i)
  \/ HandleFormSubmitResume(i)
  \/ HandleCompleteResume(i)
  \/ ConfirmDeleteResume(i)

\* the handler suspended at inflight[i] resumes with the error of a failed request
RequestFails(i) ==
  /\ i \in 1..Len(inflight)
  /\ inflight[i].stage = "err"
  /\ Resumes(i)

\* C15: every failed request (list, create, update, complete, delete) is
\* caught by the handler that issued it: the handler raises an error
\* notification with the message of the error and ends there (nothing of it
\* stays suspended, no further request is sent), leaving tasks, the filters and
\* editingId as they were; the page keeps accepting actions: the submit button
\* is enabled again after a failed submit, the busy indicator is hidden after a
\* failed load, and once nothing is in flight neither of them blocks the user.
C15_FailedRequestCaught ==
  /\ [](inflight = <<>> => ~submitDisabled /\ loadingHidden)
  /\ [][ \A i \in 1..MaxInflight :
           RequestFails(i) =>
             /\ Raises("error")
             /\ Last(toasts').err = inflight[i].msg
             /\ inflight' = RemoveAt(inflight, i)
             /\ tasks' = tasks
             /\ activeStatus' = activeStatus /\ activePriority' = activePriority
             /\ editingId' = editingId
             /\ inflight[i].handler = "handleFormSubmit" => ~submitDisabled'
             /\ inflight[i].op = "list" => loadingHidden' ]_vars

\* C15 witness: the delete of task 1 has failed; the error is on screen, the
\* snapshot and the list still hold the task, nothing is in flight and the page
\* is ready for the next action.
C15_Witness ==
  /\ inflight = <<>>
  /\ \E k \in 1..Len(toasts) :
       toasts[k].type = "error" /\ toasts[k].text = "Could not delete task: "
  /\ 1 \in IdsOf(tasks) /\ 1 \in CardIds
  /\ ~submitDisabled /\ loadingHidden
  /\ Idle

\* the request of a change (create, update, complete, delete) has succeeded and
\* its handler resumes
MutationSucceeds(i) == ChangeResumes(i) /\ inflight[i].op /= "list" /\ inflight[i].stage = "ok"

\* the reload that follows a change has succeeded and loadTasks resumes
ReloadSucceeds(i) == ChangeResumes(i) /\ inflight[i].op = "list" /\ inflight[i].stage = "ok"

\* this step tells the user that a change went through ("Task deleted." has
\* the type info, the others success)
NotifiesOutcome == Raises("success") \/ Raises("info")

\* the values of the form after resetForm
FormIsReset ==
  << editingId, formTaskId, formTitle, formPriority, cancelEditHidden, titleInvalid >>
    = << Null, Null, <<>>, DefaultPriority, TRUE, FALSE >>

\* a delete request is on its way to the service
DeleteSent == \E i \in 1..Len(inflight) : inflight[i].op = "delete" /\ inflight[i].stage = "sent"

SentLists(q) == { i \in 1..Len(q) : q[i].op = "list" /\ q[i].stage = "sent" }

\* this step sends a list request
ListGoesOut == Cardinality(SentLists(inflight')) > Cardinality(SentLists(inflight))

Unsettled == \E i \in 1..Len(inflight) : inflight[i].stage = "sent"

\* C18: while a request of the client is unsettled (a list load, or a create,
\* update, complete or delete request) the busy indicator is visible, also
\* while one of several overlapping loads is still in flight.
C18_BusyWhileUnsettled == Unsettled => ~loadingHidden

\* C18: where it fails: a complete request is in flight with the busy
\* indicator hidden, or the first of two overlapping loads has finished and
\* hidden the indicator while the second is still unsettled.
C18_UnsettledWithoutIndicator ==
  /\ loadingHidden
  /\ \/ \E i \in 1..Len(inflight) : inflight[i].op = "complete" /\ inflight[i].stage = "sent"
     \/ /\ Len(inflight) = 1
        /\ inflight[1].op = "list" /\ inflight[1].stage = "sent"
        /\ inflight[1].handler = "loadTasks"

\* C19: two changes triggered in quick succession are dispatched
\* independently (both requests are in flight at once), and once every request
\* has settled and every handler has finished, the display is the one
\* installed by the reload that followed the change whose response came last.
C19_LastReloadShown ==
  (inflight = <<>> /\ latestReload /= NoLoad) => shownLoad = Latest

\* C19: where it fails: everything has settled, both completions are on the
\* service, and the display comes from the reload of the first one, which was
\* answered before the second completion: task 2 is still shown as not done.
C19_StaleDisplay ==
  /\ inflight = <<>>
  /\ latestReload = Installed
  /\ shownLoad = Earlier
  /\ \A k \in 1..Len(server) : server[k].status = "done"
  /\ Len(server) = 2
  /\ \E k \in 1..Len(taskList) : taskList[k].id = 2 /\ taskList[k].status = "todo"

\* handleEdit is called with an id that the snapshot does not hold
EditMisses(id) == FindTask(tasks, id) = << >> /\ HandleEdit(id)

\* C20: a begin-edit for a task id that is absent from the snapshot raises the
\* error notification "Task not found in local state." and changes nothing
\* else: editingId and the form fields, tasks, the filters, pendingDeleteId
\* and the dialog, the list on display are unchanged and no request is sent.
C20_EditMissOnlyNotifies ==
  [][ \A id \in TaskIds :
        EditMisses(id) =>
          /\ Raises("error")
          /\ Last(toasts').text = "Task not found in local state."
          /\ UNCHANGED << formVars, tasks, filterVars, pendingDeleteId, modalShow,
                          taskList, inflight, submitDisabled, loadingHidden >> ]_vars

\* C20 witness: the form is editing task 1 with a changed title and the delete
\* dialog is open on task 0; a begin-edit for an absent id has raised the
\* notification and all of that is still in place.
C20_Witness ==
  /\ \E k \in 1..Len(toasts) :
       toasts[k].type = "error" /\ toasts[k].text = "Task not found in local state."
  /\ editingId = 1 /\ formTaskId = 1 /\ ~cancelEditHidden
  /\ pendingDeleteId = 0 /\ modalShow
  /\ IdsOf(tasks) = {0, 1}

\* C21: changing the status filter or the priority filter updates that filter
\* only and renders the list from the current snapshot: no request is sent and
\* tasks, the other filter, editingId (and the form) and pendingDeleteId (and
\* the dialog) are unchanged.
C21_FilterChangeOnlyRerenders ==
  /\ [][ \A v \in StatusFilters :
           HandleStatusPillClick(v) =>
             /\ activeStatus' = v
             /\ IsSelection(taskList', tasks, MatchingPositions(tasks, v, activePriority))
             /\ UNCHANGED << tasks, activePriority, formVars, pendingDeleteId, modalShow,
                             inflight, serverVars >> ]_vars
  /\ [][ \A v \in PriorityFilters :
           HandlePriorityFilterChange(v) =>
             /\ activePriority' = v
             /\ IsSelection(taskList', tasks, MatchingPositions(tasks, activeStatus, v))
             /\ UNCHANGED << tasks, activeStatus, formVars, pendingDeleteId, modalShow,
                             inflight, serverVars >> ]_vars

\* C21 witness: task 2 is being edited and its delete dialog is open; both
\* filters have been changed since, the list shows nothing of the one-task
\* snapshot, and nothing is in flight.
C21_Witness ==
  /\ activeStatus = "done" /\ activePriority = "high"
  /\ editingId = 2 /\ pendingDeleteId = 2
  /\ IdsOf(tasks) = {2} /\ taskList = <<>>
  /\ inflight = <<>>

\* C22: the status filter changes only in a status pill click, the priority
\* filter only in a change of the priority select, and editingId only in a
\* begin-edit, a cancel-edit or the success of a submit: no load, complete,
\* delete, dialog action, failed submit or failed load changes any of them.
C22_FiltersAndModeChangeOnlyByTheirActions ==
  /\ [][ activeStatus' /= activeStatus => \E v \in StatusFilters : HandleStatusPillClick(v) ]_vars
  /\ [][ activePriority' /= activePriority
           => \E v \in PriorityFilters : HandlePriorityFilterChange(v) ]_vars
  /\ [][ editingId' /= editingId
           => \/ \E id \in TaskIds : EditClick(id)
              \/ ResetForm
              \/ SubmitSucceeds ]_vars

\* C22 witness: with task 2 in edit mode and both filters set, the task has
\* been deleted and the reload has rendered the empty snapshot: the filters
\* and editingId are still those the user chose.
C22_Witness ==
  /\ editingId = 2
  /\ activeStatus = "done" /\ activePriority = "high"
  /\ server = <<>> /\ tasks = <<>>
  /\ inflight = <<>>
  /\ pendingDeleteId = Null

\* no list request is in flight and no loadTasks is suspended
NoLoadInFlight == ListRequests(inflight) = {}

\* the list on display is the filtered view of the snapshot under the filters
ListIsView == IsSelection(taskList, tasks, MatchingPositions(tasks, activeStatus, activePriority))

\* a loadTasks resumes with the error of its list request
LoadFails(i) ==
  /\ i \in 1..Len(inflight)
  /\ inflight[i].stage = "err"
  /\ LoadTasksResume(i)

\* C23 (as claimed): whenever no list load is in flight, the list on display
\* is the filtered view of the snapshot under the current filters.
C23_ListIsViewWhenNoLoad == NoLoadInFlight => ListIsView

\* C23 (amended): whenever no list load is in flight, the list on display is
\* the filtered view of the snapshot under the current filters, or it is empty.
\* It is the view after every successful load and every filter change, and
\* stays the view as long as no load starts.  A failed load keeps the snapshot
\* and leaves the list area as it finds it: empty, since the load cleared it
\* when it started, unless a filter change has rendered the list meanwhile.
C23_ListIsViewOrEmptyAfterFailedLoad ==
  /\ [](NoLoadInFlight => ListIsView \/ taskList = <<>>)
  /\ [][ RenderStep => ListIsView' ]_vars
  /\ [][ NoLoadInFlight /\ NoLoadInFlight' /\ ListIsView => ListIsView' ]_vars
  /\ [][ \A i \in 1..MaxInflight :
           LoadFails(i) => tasks' = tasks /\ taskList' = taskList ]_vars

\* C23 witness: a refresh has failed; nothing is in flight, the snapshot still
\* holds task 2, which passes the filters, and the list area is empty.
C23_Witness ==
  /\ NoLoadInFlight /\ inflight = <<>>
  /\ IdsOf(tasks) = {2}
  /\ activeStatus = "all" /\ activePriority = "all"
  /\ taskList = <<>>
  /\ \E k \in 1..Len(toasts) : toasts[k].text = "Failed to load tasks: "

\* C24: with an unchanging collection on the service, once a load has
\* succeeded and nothing is in flight, the list on display is exactly the
\* tasks of the service that match the current filters, in their order, also
\* after filter changes since the load or during it.
C24_ListIsServerView ==
  inflight = <<>> =>
    IsSelection(taskList, server, MatchingPositions(server, activeStatus, activePriority))

\* C24: where it fails: a refresh was made under the status filter todo and the
\* filter was widened to all afterwards; both filters are all, nothing is in
\* flight, and the list shows two of the three tasks of the service.
C24_NarrowSnapshotUnderAll ==
  /\ inflight = <<>>
  /\ activeStatus = "all" /\ activePriority = "all"
  /\ Len(server) = 3
  /\ Len(taskList) = 2
  /\ taskList = tasks

\* C25: whenever the form is in edit mode and no load is in flight, editingId
\* is the id of a task of the snapshot.
C25_EditedTaskInSnapshot ==
  (editingId /= Null /\ NoLoadInFlight) => editingId \in IdsOf(tasks)

\* C25: where it fails: task 2 was put in the form, then deleted; the reload
\* has installed the empty snapshot, both filters are all, nothing is in
\* flight, and the form still edits task 2.
C25_EditingDeletedTask ==
  /\ editingId = 2 /\ ~cancelEditHidden
  /\ activeStatus = "all" /\ activePriority = "all"
  /\ server = <<>> /\ tasks = <<>> /\ taskList = <<>>
  /\ inflight = <<>>

\* the requests of unsettled form submits: the create or update request of a
\* handleFormSubmit, or the reload it awaits once that request has succeeded
SubmitsInFlight == { i \in 1..Len(inflight) : inflight[i].handler = "handleFormSubmit" }

\* C26: the submit button is disabled exactly while a form submit (its create
\* or update request, then the reload that follows) is unsettled; hence at
\* most one form submit is in flight at a time, and once it has settled, with
\* success or with failure, the button is enabled again.
C26_SubmitDisabledWhileSubmitting ==
  /\ submitDisabled <=> SubmitsInFlight /= {}
  /\ Cardinality(SubmitsInFlight) <= 1

\* C26 witness: a refresh was started while a submit was in flight; the
\* request of the submit has succeeded, its reload is in flight next to the
\* refresh, and the button is disabled.
C26_Witness ==
  /\ Len(inflight) = 2
  /\ inflight[1].handler = "loadTasks"
  /\ inflight[2].handler = "handleFormSubmit" /\ inflight[2].op = "list"
  /\ submitDisabled

\* this step sends a delete request
DeleteGoesOut ==
  Cardinality(DeleteRequests(inflight')) > Cardinality(DeleteRequests(inflight))

\* C27: each entry into Confirming(id) leads to at most one delete request:
\* the step that sends a delete request sends one, starts with the id pending
\* and ends with pendingDeleteId cleared and the dialog closed, and the id
\* becomes pending again only by opening the dialog; a confirm fired while
\* nothing is pending, as during the delete in flight, sends nothing.
C27_OneDeletePerConfirming ==
  /\ [][ DeleteGoesOut =>
           /\ Cardinality(DeleteRequests(inflight')) = Cardinality(DeleteRequests(inflight)) + 1
           /\ pendingDeleteId /= Null
           /\ Last(inflight').id = pendingDeleteId
           /\ pendingDeleteId' = Null /\ ~modalShow' ]_vars
  /\ [][ ConfirmDelete /\ pendingDeleteId = Null => inflight' = inflight ]_vars
  /\ [][ pendingDeleteId = Null /\ pendingDeleteId' /= Null
           => \E id \in TaskIds : OpenDeleteModal(id) ]_vars

\* C27 witness: the delete of task 1 was confirmed and its request is in
\* flight alone; nothing is pending and the dialog is closed, so a second
\* confirm finds no id.
C27_Witness ==
  /\ Len(inflight) = 1
  /\ inflight[1].op = "delete" /\ inflight[1].id = 1 /\ inflight[1].stage = "sent"
  /\ pendingDeleteId = Null /\ ~modalShow
  /\ 1 \in IdsOf(tasks)

====
